---------------------------- MODULE Spec2Model ----------------------------
(***************************************************************************)
(* A model of rhythm-signal: the beat grid (core/grid.py), the onset       *)
(* detector (core/detector.py), the timeline window (ui/timeline_widget.py)*)
(* and the main window's handlers (ui/main_window.py).                     *)
(*                                                                         *)
(* Arithmetic.  The program computes in binary floating point; the model   *)
(* computes the same expressions in exact rational arithmetic.  Times are  *)
(* integers in milliseconds (AudioPlayer.position_seconds divides a        *)
(* millisecond count by 1000), a tempo is a whole number of BPM, and every *)
(* quotient is kept as a numerator over a stated denominator, so that no   *)
(* division is rounded except where the code itself truncates (int(...),   *)
(* //).  Rounding error of the floating-point operations is not modelled.  *)
(***************************************************************************)
EXTENDS Integers, Sequences, FiniteSets, TLC

VARIABLES
    grid,             \* MainWindow.grid: BeatGrid(bpm, downbeat_t0, beats_per_bar)
    last_beat_index,  \* MainWindow._last_beat_index: None or an index
    current_file,     \* MainWindow.current_file: None or a path
    player,           \* AudioPlayer: _loaded, _path, and the QMediaPlayer's playing state
    timeline,         \* TimelineWidget: _bpm, _t0_downbeat, _hits, _current_t, _duration_s
    monitor_on,       \* BeatMonitor._on
    pending_timers,   \* number of QTimer.singleShot(90, ...) callbacks not yet fired
    bpm_box,          \* MainWindow.bpm: the value of the QDoubleSpinBox
    last_op,          \* history: the handler that ran last, with its outcome
    flashed,          \* history: the last handler called flash_beat
    prev_index,       \* history: _last_beat_index when the last handler began
    pre_load,         \* history: the fields load_audio may write, as they were when it began
    idx_grid,         \* history: the (bpm, downbeat_t0) under which _last_beat_index was computed
    det,              \* one call of detect_hits_peakish: its arguments and its outcome
    query,            \* one BeatGrid and two calls of beat_index_at on it
    redraw            \* one run of TimelineWidget._redraw_grid: its timeline, k and items

vars == <<grid, last_beat_index, current_file, player, timeline, monitor_on,
          pending_timers, bpm_box, last_op, flashed, prev_index, pre_load,
          idx_grid, det, query, redraw>>

appVars == <<grid, last_beat_index, current_file, player, timeline, monitor_on,
             pending_timers, bpm_box, last_op, flashed, prev_index, pre_load,
             idx_grid>>

-----------------------------------------------------------------------------
(* Bounds of the model.                                                    *)

\* The time grid: positions and anchors are multiples of TimeStep milliseconds.
TimeStep == 300

\* Player positions range over 0 .. MaxPosSteps * TimeStep milliseconds.
MaxPosSteps == 4

\* One-shot timers that may be pending at once.
MaxPendingTimers == 2

\* Times of the beat_index_at calls range over 0 .. MaxQuerySteps * QueryStep.
MaxQuerySteps == 14

\* Resolution, in milliseconds, of the times given to beat_index_at.
QueryStep == 100

\* Longest sample buffer given to the detector.
MaxLen == 14

\* Most non-zero samples in a buffer given to the detector.
MaxSpikes == 2

\* Largest sample magnitude, in units of 1/AmpUnit.
MaxAmp == 3

\* The number of non-zero samples of a buffer whose scan is examined.
MaxScanSpikes == 3

-----------------------------------------------------------------------------
(* Helpers.                                                                *)

Max(a, b) == IF a >= b THEN a ELSE b

Min(a, b) == IF a <= b THEN a ELSE b

Abs(a) == IF a < 0 THEN -a ELSE a

\* Python's None where an integer is expected (beat indices are >= 0).
None == -1

\* Python's None where a path is expected.
NoFile == "none"

-----------------------------------------------------------------------------
(* core/grid.py: BeatGrid.                                                 *)

SecondsPerMinute == 60

MsPerSecond == 1000

MinBpm == 30

MaxBpm == 300

DefaultBpm == 120

DefaultBeatsPerBar == 4

BeatGrid(bpm, t0, bpb) == [bpm |-> bpm, downbeat_t0 |-> t0, beats_per_bar |-> bpb]

\* max(30.0, min(300.0, float(bpm)))
ClampBpm(bpm) == Max(MinBpm, Min(MaxBpm, bpm))

\* beat_seconds(): 60.0 / bpm with bpm clamped, as the fraction num/den of
\* milliseconds.
BeatSeconds(g) ==
    [num |-> SecondsPerMinute * MsPerSecond, den |-> ClampBpm(g.bpm)]

\* A faulty variant of BeatIndexAt: the index is rounded up instead of down.
BeatIndexAtCeil(g, t) ==
    LET beat_s == BeatSeconds(g)
        dt     == t - g.downbeat_t0
    IN  IF dt < 0 THEN None
        ELSE (dt * beat_s.den + beat_s.num - 1) \div beat_s.num

\* beat_index_at(t): None before the downbeat, else int(dt // beat_s).
\* dt // (num/den) is the floor of dt*den/num.
BeatIndexAt(g, t) ==
    LET beat_s == BeatSeconds(g)
        dt     == t - g.downbeat_t0
    IN  IF dt < 0 THEN None
        ELSE (dt * beat_s.den) \div beat_s.num

-----------------------------------------------------------------------------
(* core/detector.py: detect_hits_peakish.                                  *)
(*                                                                         *)
(* A sample is an integer number of 1/AmpUnit.  The smoothed envelope is   *)
(* kept times 3 (the kernel is 1/3), the score times 15 (0.6 = 9/15 and    *)
(* 0.4 = 6/15 of a value kept times 3), the threshold times 25 more (the   *)
(* 92nd percentile interpolates at 23/25 of the way through the sorted     *)
(* scores).  A timestamp is t_num/t_den seconds, a strength s_num/s_den.   *)

AmpUnit == 2 * MaxAmp + 2

SetMax(S) == CHOOSE x \in S : \A z \in S : z <= x

SetMin(S) == CHOOSE x \in S : \A z \in S : x <= z

\* hop = max(1, int(sr * hop_ms / 1000.0))
Hop(sr, hop_ms) == Max(1, (sr * hop_ms) \div 1000)

\* m = (n + hop - 1) // hop
NumFrames(n, hop) == (n + hop - 1) \div hop

\* env[i] = max(abs(y[a:b])) with a = i*hop, b = min(n, a + hop); frame i of
\* the code is element i+1 of the sequence.
Envelope(y, hop) ==
    LET n == Len(y)
        m == NumFrames(n, hop)
    IN  [k \in 1..m |->
            LET a == (k - 1) * hop
                b == Min(n, a + hop)
            IN  IF b > a THEN SetMax({Abs(y[j]) : j \in (a + 1)..b}) ELSE 0]

\* np.convolve(env, ones(3)/3, mode="same") when m >= 3, else env; times 3.
Smooth(env) ==
    LET m == Len(env)
    IN  IF m >= 3
        THEN [k \in 1..m |-> (IF k > 1 THEN env[k - 1] ELSE 0) + env[k]
                             + (IF k < m THEN env[k + 1] ELSE 0)]
        ELSE [k \in 1..m |-> 3 * env[k]]

\* d = np.diff(env_s, prepend=env_s[0]); d[d < 0] = 0.0
PositiveDiff(env_s) ==
    [k \in 1..Len(env_s) |->
        IF k = 1 THEN 0 ELSE Max(0, env_s[k] - env_s[k - 1])]

\* score = 0.6 * env_s + 0.4 * d; times 15 (env_s and d are held times 3).
Score(env_s, d) == [k \in 1..Len(env_s) |-> 3 * env_s[k] + 2 * d[k]]

\* The k-th smallest element (k from 0) of the sequence s.
KthSmallest(s, k) ==
    CHOOSE v \in {s[j] : j \in 1..Len(s)} :
        /\ Cardinality({j \in 1..Len(s) : s[j] < v}) <= k
        /\ k < Cardinality({j \in 1..Len(s) : s[j] <= v})

\* np.percentile(score, 92.0), linear interpolation at index 0.92*(m-1);
\* times 25.
Percentile92(score) ==
    LET m   == Len(score)
        pos == 23 * (m - 1)
        lo  == pos \div 25
        fr  == pos % 25
        a   == KthSmallest(score, lo)
        b   == KthSmallest(score, Min(lo + 1, m - 1))
    IN  25 * a + fr * (b - a)

\* thr = max(thr, 0.08), in the threshold's unit 1/(25 * 15 * AmpUnit).
Threshold(score) == Max(Percentile92(score), (8 * 25 * 15 * AmpUnit) \div 100)

\* min_gap = int(max(1, min_gap_ms / hop_ms)), for hop_ms > 0.
MinGap(hop_ms, min_gap_ms) == Max(1, min_gap_ms \div hop_ms)

\* The scan of the interior frames i = 1 .. m-2, from frame i on.  hits holds
\* (t, score) as [t_num, v] with t = t_num / sr; the division by float(sr)
\* raises when sr is 0.
RECURSIVE ScanFrom(_, _, _, _, _, _, _, _)
ScanFrom(score, thr, min_gap, hop, sr, i, hits, last_i) ==
    IF i > Len(score) - 2
    THEN [raised |-> FALSE, hits |-> hits]
    ELSE IF 25 * score[i + 1] < thr
    THEN ScanFrom(score, thr, min_gap, hop, sr, i + 1, hits, last_i)
    ELSE IF ~(score[i + 1] >= score[i] /\ score[i + 1] >= score[i + 2])
    THEN ScanFrom(score, thr, min_gap, hop, sr, i + 1, hits, last_i)
    ELSE IF i - last_i < min_gap
    THEN IF hits # <<>> /\ score[i + 1] > hits[Len(hits)].v
         THEN ScanFrom(score, thr, min_gap, hop, sr, i + 1,
                       [hits EXCEPT ![Len(hits)].v = score[i + 1]], i)
         ELSE ScanFrom(score, thr, min_gap, hop, sr, i + 1, hits, last_i)
    ELSE IF sr = 0
    THEN [raised |-> TRUE, hits |-> hits]
    ELSE ScanFrom(score, thr, min_gap, hop, sr, i + 1,
                  Append(hits, [t_num |-> i * hop, v |-> score[i + 1]]), i)

\* A faulty variant of Normalize: the strengths are divided by the largest score
\* instead of by the range of the scores.
NormalizeByMax(hits, sr) ==
    LET s    == {hits[k].v : k \in 1..Len(hits)}
        smin == SetMin(s)
        smax == SetMax(s)
    IN  [k \in 1..Len(hits) |->
            [t_num |-> hits[k].t_num, t_den |-> sr,
             s_num |-> IF smax > smin THEN hits[k].v - smin ELSE 1,
             s_den |-> IF smax > smin THEN smax ELSE 1]]

\* vv = (v - smin) / (smax - smin) if smax > smin else 1.0
Normalize(hits, sr) ==
    LET s    == {hits[k].v : k \in 1..Len(hits)}
        smin == SetMin(s)
        smax == SetMax(s)
    IN  [k \in 1..Len(hits) |->
            [t_num |-> hits[k].t_num, t_den |-> sr,
             s_num |-> IF smax > smin THEN hits[k].v - smin ELSE 1,
             s_den |-> IF smax > smin THEN smax - smin ELSE 1]]

\* The outcome of a call: the list returned, with the accepted (t, score)
\* list it was normalised from, or an exception.
Returned(hits, raw) == [status |-> "returned", hits |-> hits, raw |-> raw]

Raised == [status |-> "raised", hits |-> <<>>, raw |-> <<>>]

\* detect_hits_peakish(y, sr, hop_ms, min_gap_ms).  min_gap_ms / hop_ms
\* raises ZeroDivisionError when hop_ms is 0.
DetectHitsPeakish(y, sr, hop_ms, min_gap_ms) ==
    IF Len(y) = 0 THEN Returned(<<>>, <<>>)
    ELSE IF hop_ms = 0 THEN Raised
    ELSE
        LET hop   == Hop(sr, hop_ms)
            env   == Envelope(y, hop) \o <<>>
            env_s == Smooth(env) \o <<>>
            d     == PositiveDiff(env_s) \o <<>>
            score == Score(env_s, d) \o <<>>
            thr   == Threshold(score)
            scan  == ScanFrom(score, thr, MinGap(hop_ms, min_gap_ms), hop, sr,
                              1, <<>>, -1000000000)
        IN  IF scan.raised THEN Raised
            ELSE IF scan.hits # <<>>
            THEN Returned(Normalize(scan.hits, sr) \o <<>>, scan.hits)
            ELSE Returned(<<>>, <<>>)

-----------------------------------------------------------------------------
(* audio/loader.py and audio/player.py: the files the user can open.       *)

Files == {"beat.wav", "quiet.wav", "odd.ogg", "missing.wav"}

\* path.exists()
FileExists(f) == f # "missing.wav"

\* Whether soundfile / ffmpeg decode the file; if not, the loader raises.
FileDecodes(f) == f \in {"beat.wav", "quiet.wav"}

\* The samples sf.read returns, before normalisation.
FileSamples(f) ==
    IF f = "beat.wav"
    THEN <<0, 0, 2, 0, 0, 0, 0, 0, 0, 0, 0, 0, 0, -1, 0, 0, 0, 0, 0, 0>>
    ELSE <<0, 0, 0, 0, 0, 0, 0, 0, 0, 0>>

\* The sample rate sf.read returns (a wav file is read at its own rate).
FileSampleRate(f) == 10

\* QMediaPlayer.duration() of the file, in milliseconds.
FileDurationMs(f) ==
    IF f = "odd.ogg" THEN 1000
    ELSE (Len(FileSamples(f)) * MsPerSecond) \div FileSampleRate(f)

\* load_audio_for_analysis(path, max_seconds=...): raises, or returns the
\* samples trimmed to max_seconds and divided by their peak, and the rate.
LoadAudioForAnalysis(f, max_seconds) ==
    IF ~FileExists(f) \/ ~FileDecodes(f)
    THEN [ok |-> FALSE, y |-> <<>>, sr |-> 0]
    ELSE
        LET sr    == FileSampleRate(f)
            y0    == FileSamples(f)
            max_n == max_seconds * sr
            y1    == IF max_seconds > 0 /\ Len(y0) > max_n
                     THEN SubSeq(y0, 1, max_n) ELSE y0
            m     == IF Len(y1) > 0 THEN SetMax({Abs(y1[j]) : j \in 1..Len(y1)})
                     ELSE 1
        IN  [ok |-> TRUE,
             y  |-> IF m > 0 THEN [j \in 1..Len(y1) |-> (y1[j] * AmpUnit) \div m] \o <<>>
                    ELSE y1,
             sr |-> sr]

\* What load_audio computes from a file it can open: the loader's result for
\* max_seconds=180.0 and, if that is not an exception, the detector's for
\* hop_ms=10.0, min_gap_ms=90.0.  (A function of the file alone.)
FileAnalysis ==
    [f \in Files |->
        LET analysis == LoadAudioForAnalysis(f, 180)
        IN  [ok       |-> analysis.ok,
             detected |-> IF analysis.ok
                          THEN DetectHitsPeakish(analysis.y, analysis.sr, 10, 90)
                          ELSE Raised]]

\* AudioPlayer.position_seconds(): the positions the player may report.
Positions == {k * TimeStep : k \in 0..MaxPosSteps}

\* The values the BPM spin box can hold (its range is 30..300).
BpmValues == {100, DefaultBpm, MaxBpm}

-----------------------------------------------------------------------------
(* ui/timeline_widget.py: TimelineWidget.                                  *)

WindowBars == 2

TimeSigBeats == 4

\* set_bpm
SetBpm(tl, bpm) == [tl EXCEPT !.bpm = Max(MinBpm, Min(MaxBpm, bpm))]

\* set_downbeat_t0
SetDownbeatT0(tl, t0) == [tl EXCEPT !.t0_downbeat = Max(0, t0)]

\* set_duration
SetDuration(tl, d) == [tl EXCEPT !.duration_s = Max(0, d)]

\* set_hits
SetHits(tl, hits) == [tl EXCEPT !.hits = hits]

\* update_transport
UpdateTransport(tl, t) == [tl EXCEPT !.current_t = Max(0, t)]

\* _bars_window_seconds(): window_bars * beats_per_bar * (60.0 / bpm), as the
\* fraction num/den of milliseconds.
BarsWindowSeconds(tl) ==
    [num |-> WindowBars * TimeSigBeats * SecondsPerMinute * MsPerSecond,
     den |-> tl.bpm]

\* A faulty variant of CurrentWindow for the clamp of end: end is not clamped to
\* the duration.
CurrentWindowNoClamp(tl) ==
    LET w      == BarsWindowSeconds(tl)
        den    == 4 * w.den
        width  == 4 * w.num
        start0 == Max(0, tl.current_t * den - w.num)
        end0   == start0 + width
    IN  [start |-> IF tl.duration_s > 0 THEN Max(0, end0 - width) ELSE start0,
         end   |-> end0,
         den   |-> den]

\* A faulty variant of CurrentWindow for the re-derived start: start stays where
\* it was when end is clamped.
CurrentWindowKeepStart(tl) ==
    LET w      == BarsWindowSeconds(tl)
        den    == 4 * w.den
        width  == 4 * w.num
        start0 == Max(0, tl.current_t * den - w.num)
        end0   == start0 + width
    IN  [start |-> start0,
         end   |-> IF tl.duration_s > 0 THEN Min(tl.duration_s * den, end0) ELSE end0,
         den   |-> den]

\* _current_window(): (start, end), each a number of 1/den milliseconds with
\* den = 4 * bpm, so that w and w * 0.25 are whole.
CurrentWindow(tl) ==
    LET w      == BarsWindowSeconds(tl)
        den    == 4 * w.den
        width  == 4 * w.num
        start0 == Max(0, tl.current_t * den - w.num)
        end0   == start0 + width
        end1   == IF tl.duration_s > 0 THEN Min(tl.duration_s * den, end0) ELSE end0
        start1 == IF tl.duration_s > 0 THEN Max(0, end1 - width) ELSE start0
    IN  [start |-> start1, end |-> end1, den |-> den]

-----------------------------------------------------------------------------
(* ui/main_window.py: MainWindow.                                          *)

\* idx_grid when _last_beat_index is None.
NoGrid == <<None, None>>

\* The fields load_audio may write.
Snapshot ==
    [taken           |-> TRUE,
     bpm             |-> grid.bpm,
     downbeat_t0     |-> grid.downbeat_t0,
     tl_downbeat     |-> timeline.t0_downbeat,
     tl_duration     |-> timeline.duration_s,
     last_beat_index |-> last_beat_index,
     current_file    |-> current_file,
     hits            |-> timeline.hits]

\* pre_load when the last handler was not load_audio.
NoSnapshot ==
    [taken |-> FALSE, bpm |-> 0, downbeat_t0 |-> 0, tl_downbeat |-> 0,
     tl_duration |-> 0, last_beat_index |-> None, current_file |-> NoFile,
     hits |-> <<>>]

\* The history of a handler other than on_tick and load_audio.
History(op) ==
    /\ last_op' = op
    /\ flashed' = FALSE
    /\ prev_index' = last_beat_index
    /\ pre_load' = NoSnapshot

\* __init__
AppInit ==
    /\ grid = BeatGrid(DefaultBpm, 0, DefaultBeatsPerBar)
    /\ last_beat_index = None
    /\ current_file = NoFile
    /\ player = [loaded |-> FALSE, path |-> NoFile, playing |-> FALSE]
    /\ timeline = [bpm |-> DefaultBpm, t0_downbeat |-> 0, hits |-> <<>>,
                   current_t |-> 0, duration_s |-> 0]
    /\ monitor_on = FALSE
    /\ pending_timers = 0
    /\ bpm_box = DefaultBpm
    /\ last_op = "init"
    /\ flashed = FALSE
    /\ prev_index = None
    /\ pre_load = NoSnapshot
    /\ idx_grid = NoGrid

\* A faulty variant of OnBpmChanged: the tracked index is not reset.
OnBpmChangedKeepIndex(bpm) ==
    /\ grid' = [grid EXCEPT !.bpm = bpm]
    /\ timeline' = SetBpm(timeline, bpm)
    /\ UNCHANGED <<last_beat_index, idx_grid>>

\* on_bpm_changed(bpm)
OnBpmChanged(bpm) ==
    /\ grid' = [grid EXCEPT !.bpm = bpm]
    /\ timeline' = SetBpm(timeline, bpm)
    /\ last_beat_index' = None
    /\ idx_grid' = NoGrid

\* The user edits the spin box; valueChanged is emitted when the value
\* changes, and is connected to on_bpm_changed.
BpmEdited(bpm) ==
    /\ bpm # bpm_box
    /\ bpm_box' = bpm
    /\ OnBpmChanged(bpm)
    /\ History("bpm_changed")
    /\ UNCHANGED <<current_file, player, monitor_on, pending_timers, det, query, redraw>>

\* auto_bpm(): est is what estimate_bpm_librosa_optional returns.
AutoBpm(est) ==
    /\ current_file # NoFile
    /\ IF ~LoadAudioForAnalysis(current_file, 120).ok
       THEN /\ History("auto_bpm_error")
            /\ UNCHANGED <<grid, timeline, last_beat_index, idx_grid, bpm_box>>
       ELSE IF est = None
       THEN /\ History("auto_bpm_none")
            /\ UNCHANGED <<grid, timeline, last_beat_index, idx_grid, bpm_box>>
       ELSE IF est = bpm_box
       THEN /\ History("auto_bpm_same")
            /\ UNCHANGED <<grid, timeline, last_beat_index, idx_grid, bpm_box>>
       ELSE /\ bpm_box' = est
            /\ OnBpmChanged(est)
            /\ History("auto_bpm_accepted")
    /\ UNCHANGED <<current_file, player, monitor_on, pending_timers, det, query, redraw>>

\* set_downbeat_here(); t is player.position_seconds().
SetDownbeatHere(t) ==
    /\ player.loaded
    /\ grid' = [grid EXCEPT !.downbeat_t0 = t]
    /\ timeline' = SetDownbeatT0(timeline, t)
    /\ last_beat_index' = None
    /\ idx_grid' = NoGrid
    /\ History("set_downbeat")
    /\ UNCHANGED <<current_file, player, monitor_on, pending_timers, bpm_box,
                   det, query, redraw>>

\* toggle_play() with audio loaded (with none loaded it opens the file
\* dialog, which is LoadAudio).
TogglePlay ==
    /\ player.loaded
    /\ player' = [player EXCEPT !.playing = ~player.playing]
    /\ History("toggle_play")
    /\ UNCHANGED <<grid, last_beat_index, idx_grid, current_file, timeline,
                   monitor_on, pending_timers, bpm_box, det, query, redraw>>

\* A faulty variant of FlashBeat: no timer is started.
FlashBeatNoTimer ==
    /\ monitor_on' = TRUE
    /\ pending_timers' = pending_timers

\* flash_beat(): set_on(True), and a one-shot timer that calls set_on(False).
FlashBeat ==
    /\ monitor_on' = TRUE
    /\ pending_timers' = pending_timers + 1

\* The one-shot timer of a flash expires: set_on(False).
TimerFired ==
    /\ pending_timers > 0
    /\ monitor_on' = FALSE
    /\ pending_timers' = pending_timers - 1
    /\ History("timer")
    /\ UNCHANGED <<grid, last_beat_index, idx_grid, current_file, player,
                   timeline, bpm_box, det, query, redraw>>

\* A faulty variant of TickOutcome: the first poll after a reset flashes too.
TickOutcomeFlashFirst(last, beat_index) ==
    IF beat_index # None
    THEN IF last = None THEN [index |-> beat_index, flash |-> TRUE]
         ELSE IF beat_index # last THEN [index |-> beat_index, flash |-> TRUE]
         ELSE [index |-> last, flash |-> FALSE]
    ELSE [index |-> last, flash |-> FALSE]

\* on_tick(), the branch on beat_index: the new _last_beat_index, and whether
\* flash_beat is called.
TickOutcome(last, beat_index) ==
    IF beat_index # None
    THEN IF last = None THEN [index |-> beat_index, flash |-> FALSE]
         ELSE IF beat_index # last THEN [index |-> beat_index, flash |-> TRUE]
         ELSE [index |-> last, flash |-> FALSE]
    ELSE [index |-> last, flash |-> FALSE]

\* on_tick(); t is player.position_seconds().
OnTick(t) ==
    /\ player.loaded
    /\ timeline' = UpdateTransport(timeline, t)
    /\ LET beat_index == BeatIndexAt(grid, t)
           out        == TickOutcome(last_beat_index, beat_index)
       IN  /\ last_beat_index' = out.index
           /\ idx_grid' = IF out.index = last_beat_index THEN idx_grid
                          ELSE <<grid.bpm, grid.downbeat_t0>>
           /\ IF out.flash
              THEN pending_timers < MaxPendingTimers /\ FlashBeat
              ELSE UNCHANGED <<monitor_on, pending_timers>>
           /\ flashed' = out.flash
    /\ last_op' = "on_tick"
    /\ prev_index' = last_beat_index
    /\ pre_load' = NoSnapshot
    /\ UNCHANGED <<grid, current_file, player, bpm_box, det, query, redraw>>

\* HitEvent(t=h[0], strength=h[1]) for h in hits
HitEvents(hits) ==
    [k \in 1..Len(hits) |->
        [t_num |-> hits[k].t_num, t_den |-> hits[k].t_den,
         s_num |-> hits[k].s_num, s_den |-> hits[k].s_den]] \o <<>>

\* load_audio(path).  player.load raises for a missing file before it
\* writes anything; dur is what player.duration_seconds() returns (0 until
\* the media is loaded); an exception of the loader or of the detector ends
\* the handler where it is raised.
LoadAudio(f, dur) ==
    /\ pre_load' = Snapshot
    /\ flashed' = FALSE
    /\ prev_index' = last_beat_index
    /\ UNCHANGED <<monitor_on, pending_timers, bpm_box, det, query, redraw>>
    /\ IF ~FileExists(f)
       THEN /\ last_op' = "load_failed_player"
            /\ UNCHANGED <<grid, last_beat_index, idx_grid, current_file,
                           player, timeline>>
       ELSE
         LET tl1      == SetDuration(timeline, dur)
             tl2      == SetDownbeatT0(tl1, 0)
             analysis == FileAnalysis[f]
             detected == analysis.detected
         IN  /\ player' = [loaded |-> TRUE, path |-> f, playing |-> FALSE]
             /\ current_file' = f
             /\ grid' = [grid EXCEPT !.downbeat_t0 = 0]
             /\ last_beat_index' = None
             /\ idx_grid' = NoGrid
             /\ IF ~analysis.ok
                THEN /\ timeline' = tl2
                     /\ last_op' = "load_failed_decode"
                ELSE IF detected.status = "raised"
                THEN /\ timeline' = tl2
                     /\ last_op' = "load_failed_detect"
                ELSE /\ timeline' = SetHits(tl2, HitEvents(detected.hits))
                     /\ last_op' = "load_ok"

-----------------------------------------------------------------------------
(* The application: the handlers, in any order.                            *)

Pending == [status |-> "pending", hits |-> <<>>, raw |-> <<>>]

DetIdle ==
    det = [y |-> <<>>, sr |-> 0, hop_ms |-> 0, min_gap_ms |-> 0, out |-> Pending]

QueryIdle ==
    query = [grid |-> BeatGrid(DefaultBpm, 0, DefaultBeatsPerBar),
             t1 |-> 0, t2 |-> 0, done |-> FALSE, r1 |-> None, r2 |-> None]

RedrawIdle ==
    redraw = [tl |-> [bpm |-> DefaultBpm, t0_downbeat |-> 0, hits |-> <<>>,
                      current_t |-> 0, duration_s |-> 0],
              pc |-> "idle", k |-> 0, items |-> <<>>]

Init == AppInit /\ DetIdle /\ QueryIdle /\ RedrawIdle

Next ==
    \/ \E f \in Files : \E dur \in {0, FileDurationMs(f)} : LoadAudio(f, dur)
    \/ \E bpm \in BpmValues : BpmEdited(bpm)
    \/ \E est \in BpmValues \cup {None} : AutoBpm(est)
    \/ \E t \in Positions : SetDownbeatHere(t)
    \/ \E t \in Positions : OnTick(t)
    \/ TogglePlay
    \/ TimerFired

Spec == Init /\ [][Next]_vars

\* The handlers with the timers of the event loop: a started one-shot timer
\* expires.
FairSpec == Spec /\ WF_vars(TimerFired)

-----------------------------------------------------------------------------
(* Claims about the application, under Spec.                               *)

LoadFailures == {"load_failed_player", "load_failed_decode", "load_failed_detect"}

\* C1 (as claimed): when load_audio fails at any step, the grid, the
\* timeline's downbeat and duration, the tracked beat index, the current
\* file and the hit list are what they were before the call.
C1_NoPartialStateOnFailure ==
    last_op \in LoadFailures =>
        /\ grid.bpm = pre_load.bpm
        /\ grid.downbeat_t0 = pre_load.downbeat_t0
        /\ timeline.t0_downbeat = pre_load.tl_downbeat
        /\ timeline.duration_s = pre_load.tl_duration
        /\ last_beat_index = pre_load.last_beat_index
        /\ current_file = pre_load.current_file
        /\ timeline.hits = pre_load.hits

GridChangingOps ==
    {"bpm_changed", "auto_bpm_accepted", "set_downbeat", "load_ok",
     "load_failed_decode", "load_failed_detect"}

\* C2: every handler that writes grid.bpm or grid.downbeat_t0 leaves the
\* tracked beat index None, and a tracked index that is not None was
\* computed under the grid's present bpm and downbeat_t0.
C2_IndexInvalidatedOnGridChange ==
    /\ last_op \in GridChangingOps => last_beat_index = None
    /\ last_beat_index # None => idx_grid = <<grid.bpm, grid.downbeat_t0>>

\* C2's case: a BPM edit found an index tracked and left None.
C2_Witness ==
    /\ last_op = "bpm_changed"
    /\ prev_index # None
    /\ last_beat_index = None

\* C3: after a poll, flash_beat was called iff the index at the polled time
\* is defined, an index was tracked before the poll, and the two differ;
\* and if the index is defined, it is the tracked index now.
C3_FlashIffIndexChanged ==
    last_op = "on_tick" =>
        LET beat_index == BeatIndexAt(grid, timeline.current_t)
        IN  /\ flashed <=> (/\ beat_index # None
                            /\ prev_index # None
                            /\ beat_index # prev_index)
            /\ beat_index # None => last_beat_index = beat_index
            /\ beat_index = None => last_beat_index = prev_index

\* C3's case: a poll saw the index change and flashed.
C3_Witness ==
    /\ last_op = "on_tick"
    /\ flashed
    /\ prev_index # None
    /\ last_beat_index # prev_index

\* C4: the monitor is on only while a one-shot timer is pending, every
\* expiring timer leaves it off, and whenever it is on it goes off again.
C4_FlashSelfClears ==
    /\ [](monitor_on => pending_timers > 0)
    /\ [](last_op = "timer" => ~monitor_on)
    /\ (monitor_on ~> ~monitor_on)

\* C4's case: a second flash while the timer of the first is pending, and
\* a timer has expired since, leaving the monitor off with one pending.
C4_Witness ==
    /\ last_op = "timer"
    /\ pending_timers > 0
    /\ ~monitor_on

\* The claimed width 2 * beats_per_bar * beat_seconds() of the grid, in
\* milliseconds, is FullWidthNum / FullWidthDen.
FullWidthNum == 2 * grid.beats_per_bar * 60 * 1000

FullWidthDen == IF grid.bpm < 30 THEN 30 ELSE IF grid.bpm > 300 THEN 300 ELSE grid.bpm

\* end - start == width, of the window computed from the timeline (whose
\* bounds are numbers of 1/den milliseconds).
IsFullWidth ==
    (CurrentWindow(timeline).end - CurrentWindow(timeline).start) * FullWidthDen
        = FullWidthNum * CurrentWindow(timeline).den

\* end == D
EndsAtDuration ==
    CurrentWindow(timeline).end = timeline.duration_s * CurrentWindow(timeline).den

\* t - 0.25 * width + width >= D
NearEnd ==
    4 * timeline.current_t * FullWidthDen + 3 * FullWidthNum
        >= 4 * timeline.duration_s * FullWidthDen

\* D >= width
DurationCoversWidth == timeline.duration_s * FullWidthDen >= FullWidthNum

\* C9: with a known duration D the window ends at or before D, and at D
\* exactly when t - 0.25*width + width >= D.
C9_WindowEndsWithinDuration ==
    timeline.duration_s > 0 =>
        /\ CurrentWindow(timeline).end
              <= timeline.duration_s * CurrentWindow(timeline).den
        /\ NearEnd => EndsAtDuration

\* C9's case: a poll near the end of a track of known duration.
C9_Witness ==
    /\ last_op = "on_tick"
    /\ timeline.duration_s > 0
    /\ timeline.current_t > 0
    /\ NearEnd
    /\ EndsAtDuration

\* C10 (as claimed): the window is always full-width with start >= 0, with
\* the duration unknown and after the clamp to a known duration.
C10_AlwaysFullWidth ==
    /\ CurrentWindow(timeline).start >= 0
    /\ IsFullWidth

\* C10 (amended): start >= 0; with the duration unknown the window is
\* full-width; with a known duration D it is full-width when D >= width and
\* is [0, D] when D < width.
C10_FullWidthUnlessTrackShorter ==
    /\ CurrentWindow(timeline).start >= 0
    /\ timeline.duration_s = 0 => IsFullWidth
    /\ (timeline.duration_s > 0 /\ DurationCoversWidth) => IsFullWidth
    /\ (timeline.duration_s > 0 /\ ~DurationCoversWidth) =>
          (CurrentWindow(timeline).start = 0 /\ EndsAtDuration)

\* C10's case: the end was clamped to a duration of at least the width, and
\* the window is full-width, its start moved back from t - 0.25*width.
C10_Witness ==
    /\ last_op = "on_tick"
    /\ timeline.duration_s > 0
    /\ DurationCoversWidth
    /\ EndsAtDuration
    /\ CurrentWindow(timeline).start > 0
    /\ 4 * CurrentWindow(timeline).start * FullWidthDen
          < (4 * timeline.current_t * FullWidthDen - FullWidthNum)
               * CurrentWindow(timeline).den
    /\ IsFullWidth

\* C11 (as claimed): after every successful load the grid holds the
\* defaults bpm = 120, downbeat_t0 = 0, beats_per_bar = 4, and the
\* timeline's bpm and downbeat agree with it.
C11_LoadResetsGridToDefaults ==
    last_op = "load_ok" =>
        /\ grid = BeatGrid(DefaultBpm, 0, DefaultBeatsPerBar)
        /\ timeline.bpm = DefaultBpm
        /\ timeline.t0_downbeat = 0

-----------------------------------------------------------------------------
(* beat_index_at as a function: one grid, two times.                       *)

\* The stored bpm of the grids queried: below, in and above 30..300.
QueryBpms == {20, MinBpm, 70, 100, DefaultBpm, MaxBpm, 400}

QueryTimes == {k * QueryStep : k \in 0..MaxQuerySteps}

InitGrid ==
    /\ AppInit
    /\ DetIdle
    /\ RedrawIdle
    /\ \E bpm \in QueryBpms : \E t0 \in QueryTimes :
       \E t1 \in QueryTimes : \E t2 \in QueryTimes :
          query = [grid |-> BeatGrid(bpm, t0, DefaultBeatsPerBar),
                   t1 |-> t1, t2 |-> t2, done |-> FALSE,
                   r1 |-> None, r2 |-> None]

\* grid.beat_index_at(t1) and grid.beat_index_at(t2)
QueryBeatIndex ==
    /\ ~query.done
    /\ query' = [query EXCEPT !.done = TRUE,
                              !.r1 = BeatIndexAt(query.grid, query.t1),
                              !.r2 = BeatIndexAt(query.grid, query.t2)]
    /\ UNCHANGED <<appVars, det, redraw>>

SpecGrid == InitGrid /\ [][QueryBeatIndex]_vars

-----------------------------------------------------------------------------
(* detect_hits_peakish as a function: one call.                            *)

\* The non-zero sample values, in units of 1/AmpUnit.
SpikeLevels == {1, MaxAmp - 1, -MaxAmp}

BufferLengths == (0..3) \cup {MaxLen}

SampleRates == {0, 1000, 1500}

HopMsValues == {0, 1, 2}

MinGapMsValues == {1, 3, 4}

\* The buffer of length n that is f on the positions P and 0 elsewhere.
Buffer(n, P, f) == [j \in 1..n |-> IF j \in P THEN f[j] ELSE 0] \o <<>>

InitDetect ==
    /\ AppInit
    /\ QueryIdle
    /\ RedrawIdle
    /\ \E n \in BufferLengths :
       \E P \in {Q \in SUBSET (1..n) : Cardinality(Q) <= MaxSpikes} :
       \E f \in [P -> SpikeLevels] :
       \E sr \in SampleRates : \E hop_ms \in HopMsValues :
       \E min_gap_ms \in MinGapMsValues :
          det = [y |-> Buffer(n, P, f), sr |-> sr, hop_ms |-> hop_ms,
                 min_gap_ms |-> min_gap_ms, out |-> Pending]

\* detect_hits_peakish(y, sr, hop_ms, min_gap_ms)
Detect ==
    /\ det.out.status = "pending"
    /\ det' = [det EXCEPT !.out = DetectHitsPeakish(det.y, det.sr, det.hop_ms,
                                                    det.min_gap_ms)]
    /\ UNCHANGED <<appVars, query, redraw>>

SpecDetect == InitDetect /\ [][Detect]_vars

\* One call whose scan meets up to MaxScanSpikes onsets: a buffer of MaxLen
\* samples, a positive sample rate and hop.
InitScan ==
    /\ AppInit
    /\ QueryIdle
    /\ RedrawIdle
    /\ \E P \in {Q \in SUBSET (1..MaxLen) : Cardinality(Q) <= MaxScanSpikes} :
       \E f \in [P -> SpikeLevels] :
       \E sr \in SampleRates \ {0} : \E hop_ms \in HopMsValues \ {0} :
       \E min_gap_ms \in MinGapMsValues :
          det = [y |-> Buffer(MaxLen, P, f), sr |-> sr, hop_ms |-> hop_ms,
                 min_gap_ms |-> min_gap_ms, out |-> Pending]

SpecScan == InitScan /\ [][Detect]_vars

-----------------------------------------------------------------------------
(* TimelineWidget._redraw_grid: one run of the grid-line loop.             *)

\* beat_s = 60.0 / self._bpm, as a number of 1/den milliseconds with
\* den = 4 * bpm, the unit of the window's bounds.
BeatUnits == 4 * SecondsPerMinute * MsPerSecond

\* self._t0_downbeat + k * beat_s, in the same unit.
LinePos(tl, k) == tl.t0_downbeat * 4 * tl.bpm + k * BeatUnits

\* A faulty variant of FirstBeatIndex: the floor is not moved up to the
\* first line at or after start.
FirstBeatIndexNoAdjust(tl, start) ==
    (start - tl.t0_downbeat * 4 * tl.bpm) \div BeatUnits

\* k0 = int(np.floor((start - t0) / beat_s)), plus 1 if t0 + k0 * beat_s
\* is before start.
FirstBeatIndex(tl, start) ==
    LET k0 == (start - tl.t0_downbeat * 4 * tl.bpm) \div BeatUnits
    IN  IF LinePos(tl, k0) < start THEN k0 + 1 ELSE k0

\* The line and the label added for beat k.
GridItem(tl, k) ==
    [k           |-> k,
     pos         |-> LinePos(tl, k),
     is_bar_head |-> (k % TimeSigBeats) = 0,
     beat_num    |-> (k % TimeSigBeats) + 1]

\* _redraw_grid() up to the loop: the items are cleared and k0 is computed.
\* (beat_s <= 0 cannot happen: set_bpm keeps _bpm in 30..300.)
RedrawBegin ==
    /\ redraw.pc = "start"
    /\ redraw' = [redraw EXCEPT
                     !.pc    = "loop",
                     !.items = <<>>,
                     !.k     = FirstBeatIndex(redraw.tl,
                                              CurrentWindow(redraw.tl).start)]
    /\ UNCHANGED <<appVars, det, query>>

\* One pass of the while loop: break when the line is after end, else add
\* the line and its label and go on to k + 1.
RedrawStep ==
    /\ redraw.pc = "loop"
    /\ IF LinePos(redraw.tl, redraw.k) > CurrentWindow(redraw.tl).end
       THEN redraw' = [redraw EXCEPT !.pc = "done"]
       ELSE redraw' = [redraw EXCEPT
                          !.items = Append(redraw.items,
                                           GridItem(redraw.tl, redraw.k)),
                          !.k     = redraw.k + 1]
    /\ UNCHANGED <<appVars, det, query>>

\* The durations set_duration is called with.
DrawDurations == {0} \cup {FileDurationMs(f) : f \in Files}

\* A timeline as its setters leave it, about to be redrawn.
InitDraw ==
    /\ AppInit
    /\ DetIdle
    /\ QueryIdle
    /\ \E bpm \in QueryBpms : \E t0 \in Positions : \E t \in Positions :
       \E d \in DrawDurations :
          redraw = [tl |-> SetDuration(
                             SetDownbeatT0(
                               SetBpm(UpdateTransport(timeline, t), bpm), t0), d),
                    pc |-> "start", k |-> 0, items |-> <<>>]

NextDraw == RedrawBegin \/ RedrawStep

SpecDraw == InitDraw /\ [][NextDraw]_vars

\* The run is not abandoned: the handler that called _redraw_grid goes on
\* to the end of the loop.
FairSpecDraw == SpecDraw /\ WF_vars(RedrawBegin) /\ WF_vars(RedrawStep)

-----------------------------------------------------------------------------
(* Claims about detect_hits_peakish, under SpecDetect.                     *)

\* The largest and the smallest accepted raw score of the call.
RawMax == SetMax({det.out.raw[k].v : k \in 1..Len(det.out.raw)})

RawMin == SetMin({det.out.raw[k].v : k \in 1..Len(det.out.raw)})

\* C5 (as claimed): the hits returned are strictly increasing in timestamp,
\* and consecutive hits are at least min_gap_ms apart.  (Timestamps are
\* t_num / sr seconds.)
C5_HitsAtLeastMinGapApart ==
    det.out.status = "returned" =>
        \A k \in 1..(Len(det.out.hits) - 1) :
            /\ det.out.hits[k + 1].t_num > det.out.hits[k].t_num
            /\ (det.out.hits[k + 1].t_num - det.out.hits[k].t_num) * 1000
                  >= det.min_gap_ms * det.sr

\* C6: when hits are returned, each strength is (v - min)/(max - min) of the
\* raw scores and lies in [0, 1], some strength is exactly 1, and all are 1
\* when the raw scores are all equal.
C6_StrengthsMinMaxScaled ==
    (det.out.status = "returned" /\ det.out.hits # <<>>) =>
        /\ Len(det.out.hits) = Len(det.out.raw)
        /\ \A k \in 1..Len(det.out.hits) :
              /\ det.out.hits[k].s_den > 0
              /\ 0 <= det.out.hits[k].s_num
              /\ det.out.hits[k].s_num <= det.out.hits[k].s_den
              /\ RawMax > RawMin =>
                    det.out.hits[k].s_num * (RawMax - RawMin)
                       = (det.out.raw[k].v - RawMin) * det.out.hits[k].s_den
              /\ RawMax = RawMin => det.out.hits[k].s_num = det.out.hits[k].s_den
        /\ \E k \in 1..Len(det.out.hits) :
              det.out.hits[k].s_num = det.out.hits[k].s_den

\* C6's case: hits of different raw scores were returned, one scaled to 1
\* and one to 0.
C6_Witness ==
    /\ det.out.status = "returned"
    /\ Len(det.out.hits) >= 2
    /\ RawMax > RawMin
    /\ RawMin > 0
    /\ \E k \in 1..Len(det.out.hits) : det.out.hits[k].s_num = 0
    /\ \E k \in 1..Len(det.out.hits) :
          det.out.hits[k].s_num = det.out.hits[k].s_den

\* C7 (as claimed): the call never raises, whatever the buffer and the
\* numeric arguments.
C7_NeverRaises == det.out.status # "raised"

\* The score of the frames of the buffer y (times 15; frame i is the
\* element i + 1).
ScanScore(y, hop) ==
    LET env_s == Smooth(Envelope(y, hop) \o <<>>) \o <<>>
    IN  Score(env_s, PositiveDiff(env_s) \o <<>>) \o <<>>

\* The frames the scan does not skip: interior, at or above the threshold,
\* and not below either neighbour.
QualifyingFrames(score, thr) ==
    {i \in 1..(Len(score) - 2) :
        /\ 25 * score[i + 1] >= thr
        /\ score[i + 1] >= score[i]
        /\ score[i + 1] >= score[i + 2]}

\* The frame that gave the accepted hit h its timestamp i * hop / sr.
HitFrame(h, hop) == h.t_num \div hop

\* C12 (as claimed): the gap is measured from the frame of the previously
\* accepted hit.  The hits are at qualifying frames; a qualifying frame is a
\* hit iff no hit precedes it or it is at least min_gap frames after the
\* frame of the last hit before it; and the raw strength of a hit is the
\* highest score among the qualifying frames from its own frame up to
\* min_gap frames later.
C12_GapMeasuredFromHitFrame ==
    (det.out.status = "returned" /\ det.y # <<>>) =>
        LET min_gap == MinGap(det.hop_ms, det.min_gap_ms)
            hop     == Hop(det.sr, det.hop_ms)
            score   == ScanScore(det.y, hop)
            thr     == Threshold(score)
            qual    == QualifyingFrames(score, thr)
            raw     == det.out.raw
            frames  == {HitFrame(raw[k], hop) : k \in 1..Len(raw)}
        IN  /\ frames \subseteq qual
            /\ \A i \in qual :
                  LET before == {h \in frames : h < i}
                  IN  i \in frames
                         <=> (before = {} \/ i - SetMax(before) >= min_gap)
            /\ \A k \in 1..Len(raw) :
                  raw[k].v =
                     SetMax({score[j + 1] :
                               j \in {q \in qual :
                                        /\ q >= HitFrame(raw[k], hop)
                                        /\ q < HitFrame(raw[k], hop) + min_gap}})

-----------------------------------------------------------------------------
(* Claims about beat_index_at, under SpecGrid.                             *)

\* clamp(bpm, 30, 300) of the grid queried, as the claim states it.
QueryClampedBpm ==
    IF query.grid.bpm < 30 THEN 30
    ELSE IF query.grid.bpm > 300 THEN 300 ELSE query.grid.bpm

\* r is floor(dt / beat_seconds()) with beat_seconds() = 60 / clamp(bpm)
\* seconds and dt in milliseconds: r * 60000 <= dt * bpm < (r + 1) * 60000.
IsFloorIndex(r, dt) ==
    /\ r >= 0
    /\ r * 60000 <= dt * QueryClampedBpm
    /\ dt * QueryClampedBpm < (r + 1) * 60000

-----------------------------------------------------------------------------
(* Claims about the grid-line loop, under FairSpecDraw.                    *)

\* downbeat_t0 + k * beat_seconds() with beat_seconds() = 60 / bpm seconds,
\* as a number of 1/(4 * bpm) milliseconds.
ClaimedLine(k) ==
    redraw.tl.t0_downbeat * 4 * redraw.tl.bpm + k * 4 * 60 * 1000

\* The integers k whose line lies in the window: none is below
\* -downbeat_t0 / beat_seconds() - 1 (start >= 0) or above
\* end / beat_seconds() + 1 (downbeat_t0 >= 0).
ClaimedBeats ==
    LET win == CurrentWindow(redraw.tl)
        lo  == 0 - (redraw.tl.t0_downbeat * 4 * redraw.tl.bpm) \div (4 * 60 * 1000) - 1
        hi  == win.end \div (4 * 60 * 1000) + 1
    IN  {k \in lo..hi : win.start <= ClaimedLine(k) /\ ClaimedLine(k) <= win.end}

\* The finished loop has emitted exactly the claimed lines, in increasing k
\* from the smallest.
DrawnExactly ==
    /\ Len(redraw.items) = Cardinality(ClaimedBeats)
    /\ \A j \in 1..Len(redraw.items) :
          /\ redraw.items[j].k = SetMin(ClaimedBeats) + j - 1
          /\ redraw.items[j].k \in ClaimedBeats
          /\ redraw.items[j].pos = ClaimedLine(redraw.items[j].k)

\* C13: the grid-line loop terminates, and it emits exactly the lines at
\* downbeat_t0 + k*beat_seconds() with start <= line <= end, from the
\* smallest such k (negative when start < downbeat_t0); a line is a bar head
\* iff k mod beats_per_bar = 0, and its label (k mod beats_per_bar) + 1 is
\* in 1..beats_per_bar.
C13_GridLinesExactAndLoopTerminates ==
    /\ [](redraw.pc = "done" => DrawnExactly)
    /\ [](\A j \in 1..Len(redraw.items) :
             /\ redraw.items[j].is_bar_head <=> (redraw.items[j].k % 4 = 0)
             /\ redraw.items[j].beat_num = (redraw.items[j].k % 4) + 1
             /\ redraw.items[j].beat_num \in 1..4)
    /\ (redraw.pc = "start" ~> redraw.pc = "done")

\* C13's case: a finished redraw of a window that starts before the
\* downbeat and not on a line, with lines of negative k, a bar head among
\* them.
C13_Witness ==
    /\ redraw.pc = "done"
    /\ CurrentWindow(redraw.tl).start
          < redraw.tl.t0_downbeat * 4 * redraw.tl.bpm
    /\ Len(redraw.items) >= 5
    /\ redraw.items[1].k < -1
    /\ redraw.items[1].pos > CurrentWindow(redraw.tl).start
    /\ \E j \in 1..Len(redraw.items) :
          redraw.items[j].k < 0 /\ redraw.items[j].is_bar_head

=============================================================================
